---- MODULE Spec2Model ----
(***************************************************************************)
(* Model of qr.py: the asset-label strip generator.                        *)
(*                                                                         *)
(* Strings are sequences of one-character strings, so that splitting,      *)
(* integer parsing and zero-padded formatting are computed, not assumed.   *)
(***************************************************************************)
EXTENDS Integers, Sequences, FiniteSets

(* ----------------------------- constants ------------------------------ *)
TAPE_HEIGHT == 76
ELEMENT_GAP == 6
LABEL_GAP == 1
QR_VERSION == 1
QR_BOX_SIZE == 2
QR_BORDER == 4
TEMP_CANVAS_WIDTH == 90

(* ------------------------------- bounds ------------------------------- *)
\* longest input text drawn for the ID codec
MaxLen == 7
\* the well-formed IDs on the command line span MaxSpan + 1 consecutive numbers
MaxSpan == 3

(* --------------------------- string helpers --------------------------- *)
Digits == <<"0", "1", "2", "3", "4", "5", "6", "7", "8", "9">>

DigitChars == {Digits[k] : k \in 1..10}

DigitValues == [c \in DigitChars |-> (CHOOSE k \in 1..10 : Digits[k] = c) - 1]

IsDigit(c) == c \in DigitChars

DigitVal(c) == DigitValues[c]

\* str.split('-'): the pieces between separators, empty pieces kept
RECURSIVE SplitFrom(_, _, _)
SplitFrom(s, i, cur) ==
    IF i > Len(s) THEN <<cur>>
    ELSE IF s[i] = "-" THEN <<cur>> \o SplitFrom(s, i + 1, <<>>)
    ELSE SplitFrom(s, i + 1, Append(cur, s[i]))

Split(s) == SplitFrom(s, 1, <<>>)

\* str.strip() restricted to the blank character
Strip(s) ==
    LET inked == {k \in 1..Len(s) : s[k] # " "}
    IN IF inked = {} THEN <<>>
       ELSE SubSeq(s, CHOOSE a \in inked : \A b \in inked : a <= b,
                      CHOOSE a \in inked : \A b \in inked : a >= b)

\* the body of an int() literal after an optional sign
Unsigned(s) == IF Len(s) > 0 /\ s[1] \in {"+", "-"} THEN Tail(s) ELSE s

\* digits, with single underscores allowed between two digits
DigitsOk(s) ==
    /\ Len(s) > 0
    /\ \A i \in 1..Len(s) :
          \/ IsDigit(s[i])
          \/ /\ s[i] = "_"
             /\ i > 1 /\ i < Len(s)
             /\ IsDigit(s[i - 1]) /\ IsDigit(s[i + 1])

RECURSIVE DigitsValue(_)
DigitsValue(s) ==
    IF Len(s) = 0 THEN 0
    ELSE IF s[Len(s)] = "_" THEN DigitsValue(SubSeq(s, 1, Len(s) - 1))
    ELSE 10 * DigitsValue(SubSeq(s, 1, Len(s) - 1)) + DigitVal(s[Len(s)])

\* int(part): does the conversion succeed, and its value when it does
IntOk(s) == DigitsOk(Unsigned(Strip(s)))

IntValue(s) ==
    LET t == Strip(s)
        v == DigitsValue(Unsigned(t))
    IN IF Len(t) > 0 /\ t[1] = "-" THEN 0 - v ELSE v

\* a call's outcome: a returned value, or a raised exception
Return(v) == [raised |-> FALSE, value |-> v]

Raise(exc) == [raised |-> TRUE, exc |-> exc]

asset_id_to_int_Lenient(asset_id_str) ==
    LET parts == Split(asset_id_str)
    IN IF Len(parts) < 2 THEN Raise("ValueError")
       ELSE IF ~IntOk(parts[1]) THEN Raise("ValueError")
       ELSE IF ~IntOk(parts[2]) THEN Raise("ValueError")
       ELSE Return(IntValue(parts[1]) * 1000 + IntValue(parts[2]))

asset_id_to_int_Times100(asset_id_str) ==
    LET parts == Split(asset_id_str)
    IN IF Len(parts) # 2 THEN Raise("ValueError")
       ELSE IF ~IntOk(parts[1]) THEN Raise("ValueError")
       ELSE IF ~IntOk(parts[2]) THEN Raise("ValueError")
       ELSE Return(IntValue(parts[1]) * 100 + IntValue(parts[2]))

\* asset_id_to_int: ValueError, or major * 1000 + minor
asset_id_to_int(asset_id_str) ==
    LET parts == Split(asset_id_str)
    IN IF Len(parts) # 2 THEN Raise("ValueError")
       ELSE IF ~IntOk(parts[1]) THEN Raise("ValueError")
       ELSE IF ~IntOk(parts[2]) THEN Raise("ValueError")
       ELSE Return(IntValue(parts[1]) * 1000 + IntValue(parts[2]))

\* str(n) for n >= 0
RECURSIVE NatToStr(_)
NatToStr(n) ==
    IF n < 10 THEN <<Digits[n + 1]>>
    ELSE Append(NatToStr(n \div 10), Digits[(n % 10) + 1])

RECURSIVE ZeroPad(_, _)
ZeroPad(s, w) == IF Len(s) >= w THEN s ELSE ZeroPad(<<"0">> \o s, w)

\* format(n, "03d") for n >= 0
Fmt03d(n) == ZeroPad(NatToStr(n), 3)

FormatAssetId_NoPad(number) ==
    NatToStr(number \div 1000) \o <<"-">> \o NatToStr(number % 1000)

\* create_label's asset_id: f"{number // 1000:03d}-{number % 1000:03d}"
FormatAssetId(number) == Fmt03d(number \div 1000) \o <<"-">> \o Fmt03d(number % 1000)

(* ------------------------------- state -------------------------------- *)
VARIABLES
    pc,          \* position of the run
    args,        \* the command line: start, end, domain, print, output
    environ,     \* HOMEBOX_DOMAIN, None when unset
    qr_version,  \* the version fit=True settles on for this run's URL length
    start_int, end_int,
    i,           \* next integer of range(start_id, end_id + 1)
    labels,      \* images returned by create_label so far
    fc_match,    \* outcome of the latest fc-match lookup
    font,        \* font returned by the latest get_font
    fc_calls,    \* number of fc-match invocations
    strip,       \* the assembled strip image
    files,       \* image files present on disk
    print_calls, \* argv of every ptouch-print invocation
    stdout,      \* messages printed
    exit_code,   \* process exit status, -1 while running
    uncaught,    \* exception that escaped main, None otherwise
    text, number, asset_id   \* ID codec: input, asset_id_to_int's outcome, formatted ID

vars == <<pc, args, environ, qr_version, start_int, end_int, i, labels, fc_match,
          font, fc_calls, strip, files, print_calls, stdout, exit_code, uncaught,
          text, number, asset_id>>

codecVars == <<text, number, asset_id>>

runVars == <<args, environ, qr_version, start_int, end_int, i, labels, fc_match,
             font, fc_calls, strip, files, print_calls, stdout, exit_code, uncaught>>

None == "None"

NoImage == [width |-> 0, height |-> 0]

(* ------------------------------ inputs -------------------------------- *)
\* characters the codec's input text is drawn from
Alphabet == {"0", "9", "-", "x", "+"}

\* --start / --end values: the well-formed IDs from "000-999" on, across the
\* carry into the major part, and malformed ones
IdArgs ==
    {FormatAssetId(n) : n \in 999..(999 + MaxSpan)}
    \cup { <<>>,
           <<"1", "0", "0", "0">>,
           <<"0", "0", "1", "-", "0", "0", "0", "-", "1">>,
           <<"0", "0", "x", "-", "0", "0", "1">> }

DomainArgs == {None, "", "box.example.com"}

EnvValues == {None, "env.example.com"}

OutputArgs == {None, "", "my_labels.png"}

\* versions qr.make(fit=True) may settle on, from QR_VERSION upwards
QrVersions == {QR_VERSION, QR_VERSION + 1}

\* widths of the text block after the crop to its bounding box
TextWidths == {TEMP_CANVAS_WIDTH - 1, TEMP_CANVAS_WIDTH}

(* --------------------------- external tools --------------------------- *)
\* what one fc-match lookup followed by ImageFont.truetype can do
FcMatchOutcomes ==
    { "ok",            \* path printed, file exists, font loads
      "missing",       \* fc-match not installed: FileNotFoundError
      "nonzero",       \* fc-match exits non-zero: CalledProcessError
      "no_path",       \* printed path does not exist
      "load_error",    \* ImageFont.truetype raises OSError
      "launch_error" } \* fc-match cannot be executed: PermissionError

\* what subprocess.run(["ptouch-print", ...], check=True) can do
PrintOutcomes ==
    { "ok",
      "nonzero",       \* CalledProcessError
      "missing",       \* FileNotFoundError
      "launch_error" } \* PermissionError and other OSError

\* get_font: the font returned, or the exception that escapes it
get_font(outcome) ==
    CASE outcome = "ok"           -> Return("truetype")
      [] outcome = "load_error"   -> Raise("OSError")
      [] outcome = "missing"      -> Return("default")
      [] outcome = "nonzero"      -> Return("default")
      [] outcome = "no_path"      -> Return("default")
      [] outcome = "launch_error" -> Raise("PermissionError")

\* does the except clause of the print attempt catch this outcome
PrintCaught(outcome) == outcome \in {"nonzero", "missing"}

(* ------------------------------ images -------------------------------- *)
\* pixel width of a QR image of the given version (qrcode: 17 + 4v modules)
QrWidth(version) == (17 + 4 * version + 2 * QR_BORDER) * QR_BOX_SIZE

\* create_label: the unit image for one asset number
create_label(num, text_w) ==
    [ number   |-> num,
      asset_id |-> FormatAssetId(num),
      width    |-> QrWidth(qr_version) + ELEMENT_GAP + text_w,
      height   |-> TAPE_HEIGHT ]

RECURSIVE SumWidths(_)
SumWidths(ls) == IF Len(ls) = 0 THEN 0 ELSE ls[1].width + SumWidths(Tail(ls))

TotalWidth_NoTrailingGap(ls) == SumWidths(ls) + (Len(ls) - 1) * LABEL_GAP

\* total_w = sum(l.width for l in labels) + (len(labels) * LABEL_GAP)
TotalWidth(ls) == SumWidths(ls) + Len(ls) * LABEL_GAP

\* the paste loop: x position of each label, x_cursor advancing by width + gap
RECURSIVE PasteAt(_, _)
PasteAt(ls, x_cursor) ==
    IF Len(ls) = 0 THEN <<>>
    ELSE <<[label |-> ls[1], x |-> x_cursor]>>
         \o PasteAt(Tail(ls), x_cursor + ls[1].width + LABEL_GAP)

\* Image.new("RGB", (total_w, TAPE_HEIGHT)) with the labels pasted
NewStrip(ls) ==
    [ width |-> TotalWidth(ls), height |-> TAPE_HEIGHT, pasted |-> PasteAt(ls, 0) ]

ImageFilename_AlwaysDefault(output_filename) == "asset_labels.png"

\* image_filename = output_filename if output_filename else "asset_labels.png"
ImageFilename(output_filename) ==
    IF output_filename # None /\ output_filename # ""
    THEN output_filename ELSE "asset_labels.png"

\* default=os.getenv("HOMEBOX_DOMAIN"): the flag's value, else the environment's
ArgsDomain == IF args.domain # None THEN args.domain ELSE environ

DomainMissing_NoneOnly(domain) == domain = None

\* not args.domain: None and the empty string are both falsy
DomainMissing(domain) == domain = None \/ domain = ""

RangeRejected_Geq(start_id, end_id) == start_id >= end_id

\* start_int > end_int
RangeRejected(start_id, end_id) == start_id > end_id

RangeHasNext_Exclusive(n, end_id) == n < end_id

\* n in range(start_id, end_id + 1), for the n the iteration has reached
RangeHasNext(n, end_id) == n < end_id + 1

(* ------------------------------ actions ------------------------------- *)
\* parser.error: usage message, exit status 2
ParserError ==
    /\ pc' = "exit"
    /\ exit_code' = 2
    /\ UNCHANGED uncaught

\* an exception escaping main: traceback, exit status 1
Uncaught(exc) ==
    /\ pc' = "exit"
    /\ exit_code' = 1
    /\ uncaught' = exc

\* main: parse_args, then the domain check
CheckDomain ==
    /\ pc = "main"
    /\ IF DomainMissing(ArgsDomain)
       THEN ParserError
       ELSE pc' = "parse_ids" /\ UNCHANGED <<exit_code, uncaught>>
    /\ UNCHANGED <<args, environ, qr_version, start_int, end_int, i, labels,
                   fc_match, font, fc_calls, strip, files, print_calls, stdout>>
    /\ UNCHANGED codecVars

\* main: both IDs through asset_id_to_int, ValueError turned into parser.error
ParseIds ==
    /\ pc = "parse_ids"
    /\ LET s == asset_id_to_int(args.start)
           e == asset_id_to_int(args.end)
       IN IF s.raised \/ e.raised
          THEN ParserError /\ UNCHANGED <<start_int, end_int>>
          ELSE /\ start_int' = s.value
               /\ end_int' = e.value
               /\ pc' = "check_range"
               /\ UNCHANGED <<exit_code, uncaught>>
    /\ UNCHANGED <<args, environ, qr_version, i, labels, fc_match, font, fc_calls,
                   strip, files, print_calls, stdout>>
    /\ UNCHANGED codecVars

\* main: the range check, then the call of generate_label_strip
CheckRange ==
    /\ pc = "check_range"
    /\ IF RangeRejected(start_int, end_int)
       THEN ParserError /\ UNCHANGED i
       ELSE /\ pc' = "render"
            /\ i' = start_int
            /\ UNCHANGED <<exit_code, uncaught>>
    /\ UNCHANGED <<args, environ, qr_version, start_int, end_int, labels, fc_match,
                   font, fc_calls, strip, files, print_calls, stdout>>
    /\ UNCHANGED codecVars

\* generate_label_strip: one iteration of the list comprehension
CreateLabel ==
    /\ pc = "render"
    /\ RangeHasNext(i, end_int)
    /\ \E outcome \in FcMatchOutcomes,
          text_w \in TextWidths :
          LET f == get_font(outcome)
          IN /\ fc_match' = outcome
             /\ fc_calls' = fc_calls + 1
             /\ IF f.raised
                THEN /\ Uncaught(f.exc)
                     /\ UNCHANGED <<font, labels, i>>
                ELSE /\ font' = f.value
                     /\ labels' = Append(labels, create_label(i, text_w))
                     /\ i' = i + 1
                     /\ UNCHANGED <<pc, exit_code, uncaught>>
    /\ UNCHANGED <<args, environ, qr_version, start_int, end_int, strip, files,
                   print_calls, stdout>>
    /\ UNCHANGED codecVars

\* generate_label_strip: total width, new strip, paste loop
Assemble ==
    /\ pc = "render"
    /\ ~RangeHasNext(i, end_int)
    /\ strip' = NewStrip(labels)
    /\ pc' = "save"
    /\ UNCHANGED <<args, environ, qr_version, start_int, end_int, i, labels, fc_match,
                   font, fc_calls, files, print_calls, stdout, exit_code, uncaught>>
    /\ UNCHANGED codecVars

\* generate_label_strip: strip.save and the success message
Save ==
    /\ pc = "save"
    /\ \E saved \in BOOLEAN :
          IF saved
          THEN /\ files' = files \cup {ImageFilename(args.output)}
               /\ stdout' = Append(stdout, <<"created", ImageFilename(args.output)>>)
               /\ IF args.print
                  THEN pc' = "print" /\ UNCHANGED exit_code
                  ELSE pc' = "exit" /\ exit_code' = 0
               /\ UNCHANGED uncaught
          ELSE /\ Uncaught("OSError")
               /\ UNCHANGED <<files, stdout>>
    /\ UNCHANGED <<args, environ, qr_version, start_int, end_int, i, labels, fc_match,
                   font, fc_calls, strip, print_calls>>
    /\ UNCHANGED codecVars

\* generate_label_strip: the print attempt
PrintLabel ==
    /\ pc = "print"
    /\ \E outcome \in PrintOutcomes :
          /\ print_calls' = Append(print_calls,
                 [argv |-> <<"ptouch-print", "--image", ImageFilename(args.output)>>,
                  outcome |-> outcome])
          /\ IF outcome = "ok"
             THEN /\ stdout' = Append(stdout, <<"printed", ImageFilename(args.output)>>)
                  /\ pc' = "exit" /\ exit_code' = 0 /\ UNCHANGED uncaught
             ELSE IF PrintCaught(outcome)
             THEN /\ stdout' = Append(stdout, <<"error printing", ImageFilename(args.output)>>)
                  /\ pc' = "exit" /\ exit_code' = 0 /\ UNCHANGED uncaught
             ELSE /\ Uncaught("PermissionError")
                  /\ UNCHANGED stdout
    /\ UNCHANGED <<args, environ, qr_version, start_int, end_int, i, labels, fc_match,
                   font, fc_calls, strip, files>>
    /\ UNCHANGED codecVars

\* the codec applied to a text
Parse ==
    /\ pc = "codec"
    /\ number' = asset_id_to_int(text)
    /\ pc' = "parsed"
    /\ UNCHANGED <<text, asset_id>>
    /\ UNCHANGED runVars

\* the format of create_label applied to the parsed number
Format ==
    /\ pc = "parsed"
    /\ ~number.raised
    /\ asset_id' = FormatAssetId(number.value)
    /\ pc' = "formatted"
    /\ UNCHANGED <<text, number>>
    /\ UNCHANGED runVars

(* --------------------------- specifications --------------------------- *)
InitRun ==
    /\ args \in [ start : IdArgs, end : IdArgs, domain : DomainArgs,
                  print : BOOLEAN, output : OutputArgs ]
    /\ environ \in EnvValues
    /\ qr_version \in QrVersions
    /\ start_int = 0
    /\ end_int = 0
    /\ i = 0
    /\ labels = <<>>
    /\ fc_match = None
    /\ font = None
    /\ fc_calls = 0
    /\ strip = NoImage
    /\ files = {}
    /\ print_calls = <<>>
    /\ stdout = <<>>
    /\ exit_code = -1
    /\ uncaught = None

Init ==
    /\ pc = "main"
    /\ InitRun
    /\ text = <<>>
    /\ number = Raise(None)
    /\ asset_id = <<>>

Next ==
    \/ CheckDomain
    \/ ParseIds
    \/ CheckRange
    \/ CreateLabel
    \/ Assemble
    \/ Save
    \/ PrintLabel

Spec == Init /\ [][Next]_vars

\* the ID codec on every text of at most MaxLen characters
InitCodec ==
    /\ pc = "codec"
    /\ \E k \in 0..MaxLen : text \in [1..k -> Alphabet]
    /\ number = Raise(None)
    /\ asset_id = <<>>
    /\ args = [ start |-> <<>>, end |-> <<>>, domain |-> None,
                print |-> FALSE, output |-> None ]
    /\ environ = None
    /\ qr_version = QR_VERSION
    /\ start_int = 0
    /\ end_int = 0
    /\ i = 0
    /\ labels = <<>>
    /\ fc_match = None
    /\ font = None
    /\ fc_calls = 0
    /\ strip = NoImage
    /\ files = {}
    /\ print_calls = <<>>
    /\ stdout = <<>>
    /\ exit_code = -1
    /\ uncaught = None

NextCodec == Parse \/ Format

SpecCodec == InitCodec /\ [][NextCodec]_vars

(* ------------------------------- claims ------------------------------- *)
\* positions of the separator in a text
SepPositions(t) == {k \in 1..Len(t) : t[k] = "-"}

\* a text read as two integer literals around its only separator:
\* whether it is one, and the number major * 1000 + minor it then denotes
Reading(t) ==
    LET seps == SepPositions(t)
    IN IF Cardinality(seps) # 1 THEN [ok |-> FALSE, value |-> 0]
       ELSE LET k == CHOOSE k \in seps : TRUE
                left == SubSeq(t, 1, k - 1)
                right == SubSeq(t, k + 1, Len(t))
            IN IF IntOk(left) /\ IntOk(right)
               THEN [ok |-> TRUE, value |-> IntValue(left) * 1000 + IntValue(right)]
               ELSE [ok |-> FALSE, value |-> 0]

TwoIntegerParts(t) == Reading(t).ok

Decoded(t) == Reading(t).value

\* "AAA-BBB" with both parts exactly three decimal digits
ThreeDigitForm(t) ==
    /\ Len(t) = 7
    /\ t[4] = "-"
    /\ \A k \in {1, 2, 3, 5, 6, 7} : IsDigit(t[k])

\* nothing of the image pipeline has happened
NoImageWork ==
    /\ fc_calls = 0
    /\ fc_match = None
    /\ labels = <<>>
    /\ strip = NoImage
    /\ files = {}
    /\ print_calls = <<>>
    /\ stdout = <<>>

Assembled == pc \in {"save", "print"} \/ (pc = "exit" /\ strip # NoImage)

\* C1 (as stated): once the strip is assembled its width is the sum of the
\* label widths plus (count - 1) gaps, count = end - start + 1, and its
\* height is TAPE_HEIGHT.
C1_Original ==
    Assembled =>
        /\ strip.width = SumWidths(labels) + (end_int - start_int) * LABEL_GAP
        /\ strip.height = TAPE_HEIGHT

\* C1 (amended): once the strip is assembled its width is the sum of the
\* label widths plus count gaps (one after every label, the last included),
\* count = end - start + 1, and its height is TAPE_HEIGHT.
C1_StripSize ==
    Assembled =>
        /\ strip.width = SumWidths(labels) + (end_int - start_int + 1) * LABEL_GAP
        /\ strip.height = TAPE_HEIGHT
        /\ \A k \in 1..Len(labels) : labels[k].height = TAPE_HEIGHT

C1_Witness ==
    /\ Assembled
    /\ Len(labels) = 3
    /\ labels[1].width # labels[2].width

\* C2: whenever the print utility was run and failed, the run ends with the
\* failure reported, the saved image present, exit status 0 and no uncaught
\* exception.
C2_PrintFailureCaught ==
    (pc = "exit" /\ print_calls # <<>> /\ print_calls[1].outcome # "ok") =>
        /\ exit_code = 0
        /\ uncaught = None
        /\ print_calls[1].argv[3] \in files
        /\ stdout[Len(stdout)] = <<"error printing", print_calls[1].argv[3]>>

\* C3: with two well-formed IDs, start > end ends in a usage error (status 2)
\* with no label, file or print; start <= end is never rejected for its range.
C3_RangeValidated ==
    LET s == Reading(args.start)
        e == Reading(args.end)
    IN (s.ok /\ e.ok) =>
        IF s.value > e.value
        THEN /\ pc \in {"main", "parse_ids", "check_range", "exit"}
             /\ pc = "exit" => exit_code = 2
             /\ NoImageWork
        ELSE /\ pc = "exit" /\ exit_code = 2 => ArgsDomain \in {None, ""}
             /\ pc = "check_range" => start_int <= end_int

C3_Witness ==
    /\ pc = "exit"
    /\ exit_code = 2
    /\ ArgsDomain = "box.example.com"
    /\ TwoIntegerParts(args.start) /\ TwoIntegerParts(args.end)
    /\ Decoded(args.start) = Decoded(args.end) + 1

\* C4: with --domain omitted or empty and HOMEBOX_DOMAIN unset, the run goes
\* from the domain check straight to a usage error; no font lookup, label,
\* file or print ever happens.
C4_DomainRequired ==
    (args.domain \in {None, ""} /\ environ = None) =>
        /\ pc \in {"main", "exit"}
        /\ pc = "exit" => (exit_code = 2 /\ uncaught = None)
        /\ NoImageWork

C4_Witness ==
    /\ pc = "exit"
    /\ exit_code = 2
    /\ args.domain = ""
    /\ environ = None
    /\ TwoIntegerParts(args.start) /\ TwoIntegerParts(args.end)
    /\ Decoded(args.start) <= Decoded(args.end)

\* C5: a text "AAA-BBB" of two three-digit parts parses without error, and
\* formatting the parsed number gives the text back.
C5_RoundTrip ==
    ThreeDigitForm(text) =>
        /\ pc \in {"parsed", "formatted"} => ~number.raised
        /\ pc = "formatted" => asset_id = text

C5_Witness ==
    /\ pc = "formatted"
    /\ text = <<"0", "0", "9", "-", "0", "9", "0">>
    /\ asset_id = text

\* C6: asset_id_to_int raises ValueError exactly for the texts that are not
\* two integer parts around one separator, and otherwise returns
\* major * 1000 + minor.
C6_ParseErrors ==
    pc \in {"parsed", "formatted"} =>
        IF TwoIntegerParts(text)
        THEN number = Return(Decoded(text))
        ELSE number = Raise("ValueError")

C6_Witness ==
    /\ pc = "parsed"
    /\ Cardinality(SepPositions(text)) = 2
    /\ \A k \in 1..Len(text) : text[k] = "-" \/ IsDigit(text[k])
    /\ number.raised

\* C7: the labels rendered are those of start, start + 1, ... in that order,
\* each formatted from its number; once assembled there are end - start + 1
\* of them, pasted left to right in that order; "001-000".."001-002" gives
\* "001-000", "001-001", "001-002".
C7_LabelsInOrder ==
    /\ \A k \in 1..Len(labels) :
          /\ labels[k].number = start_int + k - 1
          /\ Reading(labels[k].asset_id) = [ok |-> TRUE, value |-> labels[k].number]
          /\ ThreeDigitForm(labels[k].asset_id)
    /\ Assembled =>
          /\ Len(labels) = end_int - start_int + 1
          /\ Len(strip.pasted) = Len(labels)
          /\ \A k \in 1..Len(labels) : strip.pasted[k].label = labels[k]
          /\ \A k \in 1..(Len(labels) - 1) : strip.pasted[k].x < strip.pasted[k + 1].x
    /\ (Assembled /\ start_int = 1000 /\ end_int = 1002) =>
          /\ labels[1].asset_id = <<"0", "0", "1", "-", "0", "0", "0">>
          /\ labels[2].asset_id = <<"0", "0", "1", "-", "0", "0", "1">>
          /\ labels[3].asset_id = <<"0", "0", "1", "-", "0", "0", "2">>

C7_Witness ==
    /\ Assembled
    /\ start_int = 1000
    /\ end_int = 1002
    /\ Len(labels) = 3

\* C8: a malformed --start or --end ends in a usage error (status 2) with no
\* label, file or print, whatever the other ID is.
C8_MalformedIdRejected ==
    (~TwoIntegerParts(args.start) \/ ~TwoIntegerParts(args.end)) =>
        /\ pc \in {"main", "parse_ids", "exit"}
        /\ pc = "exit" => (exit_code = 2 /\ uncaught = None)
        /\ NoImageWork

C8_Witness ==
    /\ pc = "exit"
    /\ exit_code = 2
    /\ ArgsDomain = "box.example.com"
    /\ TwoIntegerParts(args.start)
    /\ Cardinality(SepPositions(args.end)) = 2

\* C9: every failed font lookup yields the default font and its label is
\* still rendered (no lookup aborts the run); and fc-match has been run once
\* per label of the range when the strip is assembled.
C9_FontFallback ==
    /\ fc_match \notin {None, "ok"} => (font = "default" /\ Len(labels) = fc_calls)
    /\ Assembled => fc_calls = end_int - start_int + 1

\* C10: the print utility is run at most once, only with the print flag set,
\* only after the image was saved, and on the file just written; the file is
\* --output when given, "asset_labels.png" otherwise.
C10_PrintAfterSave ==
    /\ Len(print_calls) <= 1
    /\ ~args.print => print_calls = <<>>
    /\ uncaught = "OSError" => print_calls = <<>>
    /\ print_calls # <<>> =>
          /\ args.print
          /\ pc = "exit"
          /\ print_calls[1].argv[1] = "ptouch-print"
          /\ files = {print_calls[1].argv[3]}
          /\ stdout[1] = <<"created", print_calls[1].argv[3]>>
          /\ args.output = "my_labels.png" => print_calls[1].argv[3] = "my_labels.png"
          /\ args.output \in {None, ""} => print_calls[1].argv[3] = "asset_labels.png"

C10_Witness ==
    /\ Len(print_calls) = 1
    /\ args.output = "my_labels.png"
    /\ print_calls[1].argv[3] = "my_labels.png"

====
